---- MODULE Spec2Model ----
(***************************************************************************)
(* GoFuzz (src/main.go, the variant with Job/Result/Config): the seeder in *)
(* main, the worker goroutines, the result printer, the two buffered       *)
(* channels, the WaitGroup and the visited sync.Map.                       *)
(*                                                                         *)
(* Strings are sequences of one-character strings, so that concatenation   *)
(* and strings.ReplaceAll are computed as the code computes them.          *)
(***************************************************************************)
EXTENDS Integers, Sequences, FiniteSets, Bags, TLC

\* ------------------------------------------------------------------ bounds
MaxWorkers == 2     \* cfg.Workers ranges over 1..MaxWorkers
MaxLines   == 2     \* the wordlist file has at most MaxLines lines
MaxExts    == 1     \* cfg.Extensions has at most MaxExts entries
MaxDepthB  == 1     \* cfg.MaxDepth ranges over -1..MaxDepthB
MaxRetries == 1     \* cfg.Retries ranges over -1..MaxRetries
MaxBody    == 1     \* response bodies have at most MaxBody bytes
MaxLenFlag == 1     \* cfg.MinLength, cfg.MaxLength range over 0..MaxLenFlag

\* ----------------------------------------------------------------- strings
FUZZ == <<"F", "U", "Z", "Z">>

RECURSIVE ReplaceAll(_, _, _)
\* strings.ReplaceAll(s, old, new) for a non-empty old: the leftmost
\* non-overlapping occurrences, the replacement is not rescanned
ReplaceAll(s, old, new) ==
    IF Len(s) < Len(old) THEN s
    ELSE IF SubSeq(s, 1, Len(old)) = old
         THEN new \o ReplaceAll(SubSeq(s, Len(old) + 1, Len(s)), old, new)
         ELSE <<Head(s)>> \o ReplaceAll(Tail(s), old, new)

replacePlaceholder(template, word) == ReplaceAll(template, FUZZ, word)

containsInt(slice, val) == \E i \in 1..Len(slice) : slice[i] = val

\* regexp.Match for the patterns of the model, which are literal texts: the
\* pattern occurs somewhere in the body
RegexMatch(re, body) ==
    \E i \in 0..(Len(body) - Len(re)) : SubSeq(body, i + 1, i + Len(re)) = re

\* ------------------------------------------------------------------- state
VARIABLES
    cfg,            \* the Config, fixed once the pool starts
    wordlistFile,   \* the lines of the file cfg.Wordlist names
    jobs,           \* the buffered channel of Job
    jobKind,        \* history: how each queued job was made (seed, ext, plain)
    jobsClosed,     \* close(jobs) has happened
    results,        \* the buffered channel of Result
    resultsClosed,  \* close(results) has happened
    visited,        \* the keys of the sync.Map
    mainState,      \* main: its position in the feed loop and after it
    wk,             \* the worker goroutines: position and locals
    wgCount,        \* the WaitGroup counter
    printerPc,      \* the result printer goroutine
    crashed,        \* the panic that ended the process, or "none"
    seeded,         \* history: the jobs main has put on the queue, in order
    dispatched,     \* history: bag of job URLs that entered the request loop
    recEnq,         \* history: number of recursive jobs workers enqueued
    emitted,        \* history: number of Results workers sent
    consumed,       \* history: bag of the jobs workers received
    sentFor,        \* history: bag of the targets of the Results sent
    server          \* environment: the replies the target host can give

vars == <<cfg, wordlistFile, jobs, jobKind,
          jobsClosed, results, resultsClosed, visited,
          mainState, wk, wgCount, printerPc, crashed, seeded, dispatched,
          recEnq, emitted, consumed, sentFor, server>>

Nil == <<"nil">>
NoJob == [URL |-> <<>>, PostData |-> <<>>, Depth |-> 0]
NoResp == [StatusCode |-> 0, Body |-> <<>>]
\* a map[string]string with no entry, and a nil *http.Request
NoHeaders == [k \in {} |-> <<>>]
NoReq == [Method |-> "", URL |-> <<>>, Header |-> NoHeaders]

TransportError == "dial tcp: connection refused"

\* -------------------------------------------------------------- input sets
Words == {<<>>, <<"a">>}
ExtList == <<<<".", "p">>, <<".", "q">>, <<".", "r">>>>
Templates == {<<"/", "F", "U", "Z", "Z">>}
PostDatas == {<<>>}
StatusCodes == {200, 404, 500}
Bodies == UNION {[1..n -> {"w", "x"}] : n \in 0..MaxBody}
Wordlists == UNION {[1..n -> Words] : n \in 0..MaxLines}
ExtensionLists == {SubSeq(ExtList, 1, n) : n \in 0..MaxExts}
StatusFilters == {<<>>, <<200>>}
RegexFilters == {Nil, <<"w">>}
Methods == {"GET", "BAD METHOD"}

\* a reply of the target host to one client.Do: a transport error, or a
\* response with a status code and a body
ErrReply == [ok |-> FALSE, StatusCode |-> 0, Body |-> <<>>]
Replies == {ErrReply} \cup
           [ok : {TRUE}, StatusCode : StatusCodes, Body : Bodies]

\* main.go:335-343 the header templates of -H: none, or one whose value
\* holds the placeholder twice next to one without it
HeaderMaps ==
    {NoHeaders,
     [k \in {"Referer", "Accept"} |->
        IF k = "Referer" THEN FUZZ \o <<"?">> \o FUZZ ELSE <<"*">>]}

MkConfig(t, pd, m, h, e, w, mn, mx, rec, sf, re, d, r) ==
    [URLTemplate |-> t, PostData |-> pd, Method |-> m, Headers |-> h,
     Extensions |-> e,
     Workers |-> w, MinLength |-> mn, MaxLength |-> mx, Recursive |-> rec,
     StatusFilter |-> sf, RegexFilter |-> re, MaxDepth |-> d, Retries |-> r]

\* The configurations explored.
\* PoolConfigs: the pool shapes, with the status filter 200 and a host that
\* answers 200, 404 or not at all: any number of workers racing for the jobs
\* of any wordlist without extensions, and one worker with any extension
\* list; both with recursion off and on and any max depth.
\* PairConfigs: two workers, one extension, wordlists of up to two lines,
\* max depth up to 1: two workers expanding at the same time.
\* RequestConfigs: every method, retry count and filter setting on a
\* one-worker pool and a one-word wordlist, with a host that answers
\* anything.
PoolConfigs ==
    {MkConfig(t, pd, "GET", NoHeaders, <<>>, w, 0, 0, rec, <<200>>, Nil, d, 0) :
        t \in Templates, pd \in PostDatas, w \in 1..MaxWorkers,
        rec \in BOOLEAN, d \in (-1)..MaxDepthB}
    \cup
    {MkConfig(t, pd, "GET", NoHeaders, e, 1, 0, 0, rec, <<200>>, Nil, d, 0) :
        t \in Templates, pd \in PostDatas, e \in ExtensionLists,
        rec \in BOOLEAN, d \in (-1)..MaxDepthB}
PairConfigs ==
    {MkConfig(t, pd, "GET", NoHeaders, <<ExtList[1]>>, 2, 0, 0, rec, <<200>>,
              Nil, d, 0) :
        t \in Templates, pd \in PostDatas, rec \in BOOLEAN,
        d \in (-1)..1}
PairWordlists == UNION {[1..n -> Words] : n \in 0..2}
RequestConfigs ==
    {MkConfig(t, pd, m, h, <<>>, 1, mn, mx, rec, sf, re, 0, r) :
        t \in Templates, pd \in PostDatas, m \in Methods, h \in HeaderMaps,
        mn \in 0..MaxLenFlag, mx \in 0..MaxLenFlag, rec \in BOOLEAN,
        sf \in StatusFilters, re \in RegexFilters, r \in (-1)..MaxRetries}

PoolServer == {ErrReply, [ok |-> TRUE, StatusCode |-> 200, Body |-> <<>>],
               [ok |-> TRUE, StatusCode |-> 404, Body |-> <<>>]}

WorkerInit ==
    [pc |-> "idle", job |-> NoJob, outs |-> <<>>, req |-> NoReq, err |-> "",
     resp |-> NoResp, hasResp |-> FALSE, ext |-> 0, kind |-> ""]

\* main.go:394-411: channels made, workers and the printer started
Init ==
    /\ \/ /\ cfg \in PoolConfigs
          /\ wordlistFile \in Wordlists
          /\ server = PoolServer
       \/ /\ cfg \in PairConfigs
          /\ wordlistFile \in PairWordlists
          /\ server = PoolServer
       \/ /\ cfg \in RequestConfigs
          /\ wordlistFile = << <<"a">> >>
          /\ server = Replies
    /\ jobs = <<>>
    /\ jobKind = <<>>
    /\ jobsClosed = FALSE
    /\ results = <<>>
    /\ resultsClosed = FALSE
    /\ visited = {}
    /\ mainState = [pc |-> "feed", line |-> 1, ext |-> 0]
    /\ wk = [w \in 1..cfg.Workers |-> WorkerInit]
    /\ wgCount = cfg.Workers
    /\ printerPc = "range"
    /\ crashed = "none"
    /\ seeded = <<>>
    /\ dispatched = EmptyBag
    /\ recEnq = 0
    /\ emitted = 0
    /\ consumed = EmptyBag
    /\ sentFor = EmptyBag

\* make(chan Job, cfg.Workers*2), make(chan Result, cfg.Workers*2)
Cap == cfg.Workers * 2
\* the process lives until a goroutine panics or main returns
Running == crashed = "none" /\ mainState.pc # "exit"
Workers == DOMAIN wk

\* ------------------------------------------------------------ main: seeding
\* the bug of feeding blank lines too
SkipLine_Never(word) == FALSE

\* main.go:423 `if word == "" { continue }`
SkipLine(word) == word = <<>>

\* main.go:427 and 430: the Job made for a word (or word+ext) of the wordlist
SeedJob(c, word) ==
    [URL |-> replacePlaceholder(c.URLTemplate, word),
     PostData |-> replacePlaceholder(c.PostData, word),
     Depth |-> 0]

AtLine == mainState.pc = "feed" /\ mainState.line <= Len(wordlistFile)
CurWord == wordlistFile[mainState.line]

\* position after the job number k of the current line (0 = the base job)
AfterSeed(k) ==
    IF k < Len(cfg.Extensions)
    THEN [mainState EXCEPT !.ext = k + 1]
    ELSE [mainState EXCEPT !.line = @ + 1, !.ext = 0]

MainSkipBlank ==
    /\ Running /\ AtLine /\ mainState.ext = 0
    /\ SkipLine(CurWord)
    /\ mainState' = [mainState EXCEPT !.line = @ + 1]
    /\ UNCHANGED <<cfg, wordlistFile, jobs, jobKind,
                   jobsClosed, results, resultsClosed,
                   visited, wk, wgCount, printerPc, crashed, seeded,
                   dispatched, recEnq, emitted, consumed, sentFor, server>>

MainSendBase ==
    /\ Running /\ AtLine /\ mainState.ext = 0
    /\ ~SkipLine(CurWord)
    /\ Len(jobs) < Cap
    /\ jobs' = Append(jobs, SeedJob(cfg, CurWord))
    /\ jobKind' = Append(jobKind, "seed")
    /\ seeded' = Append(seeded, SeedJob(cfg, CurWord))
    /\ mainState' = AfterSeed(0)
    /\ UNCHANGED <<cfg, wordlistFile, jobsClosed, results, resultsClosed,
                   visited, wk, wgCount, printerPc, crashed,
                   dispatched, recEnq, emitted, consumed, sentFor, server>>

MainSendExt ==
    /\ Running /\ AtLine /\ mainState.ext >= 1
    /\ Len(jobs) < Cap
    /\ LET j == SeedJob(cfg, CurWord \o cfg.Extensions[mainState.ext])
       IN /\ jobs' = Append(jobs, j)
          /\ jobKind' = Append(jobKind, "seed")
          /\ seeded' = Append(seeded, j)
    /\ mainState' = AfterSeed(mainState.ext)
    /\ UNCHANGED <<cfg, wordlistFile, jobsClosed, results, resultsClosed,
                   visited, wk, wgCount, printerPc, crashed,
                   dispatched, recEnq, emitted, consumed, sentFor, server>>

\* main.go:434 close(jobs), once the scanner has no more lines
MainCloseJobs ==
    /\ Running /\ mainState.pc = "feed"
    /\ mainState.line > Len(wordlistFile)
    /\ jobsClosed' = TRUE
    /\ mainState' = [mainState EXCEPT !.pc = "wait"]
    /\ UNCHANGED <<cfg, wordlistFile, jobs, jobKind,
                   results, resultsClosed, visited,
                   wk, wgCount, printerPc, crashed, seeded,
                   dispatched, recEnq, emitted, consumed, sentFor, server>>

\* the bug of closing the results without waiting for the workers
WaitReturns_AtOnce(count) == TRUE

\* main.go:435 wg.Wait() returns when every worker has run wg.Done()
WaitReturns(count) == count = 0

\* main.go:435 wg.Wait()
MainWait ==
    /\ Running /\ mainState.pc = "wait"
    /\ WaitReturns(wgCount)
    /\ mainState' = [mainState EXCEPT !.pc = "closeResults"]
    /\ UNCHANGED <<cfg, wordlistFile, jobs, jobKind,
                   jobsClosed, results, resultsClosed,
                   visited, wk, wgCount, printerPc, crashed, seeded,
                   dispatched, recEnq, emitted, consumed, sentFor, server>>

\* main.go:436 close(results)
MainCloseResults ==
    /\ Running /\ mainState.pc = "closeResults"
    /\ resultsClosed' = TRUE
    /\ mainState' = [mainState EXCEPT !.pc = "return"]
    /\ UNCHANGED <<cfg, wordlistFile, jobs, jobKind,
                   jobsClosed, results, visited, wk,
                   wgCount, printerPc, crashed, seeded, dispatched,
                   recEnq, emitted, consumed, sentFor, server>>

\* main.go:437 main returns and the process ends, whatever the other
\* goroutines are doing
MainReturn ==
    /\ Running /\ mainState.pc = "return"
    /\ mainState' = [mainState EXCEPT !.pc = "exit"]
    /\ UNCHANGED <<cfg, wordlistFile, jobs, jobKind,
                   jobsClosed, results, resultsClosed,
                   visited, wk, wgCount, printerPc, crashed, seeded,
                   dispatched, recEnq, emitted, consumed, sentFor, server>>

\* ----------------------------------------------------------------- worker
\* the bug of a plain Store, which never reports the key as present
LoadOrStoreLoaded_Store(v, key) == FALSE

\* main.go:198 visited.LoadOrStore(job.URL, true): the `loaded` result; the
\* key is in the map afterwards in either case
LoadOrStoreLoaded(v, key) == key \in v

\* the bug of `attempt < cfg.Retries`
AttemptAllowed_OffByOne(attempt, c) == attempt < c.Retries

\* main.go:210 the loop condition `attempt <= cfg.Retries`
AttemptAllowed(attempt, c) == attempt <= c.Retries

\* main.go:211-215 http.NewRequest fails on a method that is no valid token
NewRequestFails(method, url) == method = "BAD METHOD"

\* the bug of retrying on a 5xx response as well
BreakOnReply_Not5xx(reply) == reply.ok /\ reply.StatusCode < 500

\* main.go:222 `if err == nil { break }`: any response ends the loop
BreakOnReply(reply) == reply.ok

\* the bug of `length <= cfg.MinLength` in the length filter
Accept_MinExclusive(status, body, c) ==
    IF Len(c.StatusFilter) > 0 /\ ~containsInt(c.StatusFilter, status)
    THEN FALSE
    ELSE IF (c.MinLength > 0 /\ Len(body) <= c.MinLength)
            \/ (c.MaxLength > 0 /\ Len(body) > c.MaxLength)
    THEN FALSE
    ELSE IF c.RegexFilter # Nil /\ ~RegexMatch(c.RegexFilter, body)
    THEN FALSE
    ELSE TRUE

\* the bug of reporting every response, the filters left out
Accept_Always(status, body, c) == TRUE

\* main.go:238-246 the three filters, each a `continue` when it rejects
Accept(status, body, c) ==
    IF Len(c.StatusFilter) > 0 /\ ~containsInt(c.StatusFilter, status)
    THEN FALSE
    ELSE IF (c.MinLength > 0 /\ Len(body) < c.MinLength)
            \/ (c.MaxLength > 0 /\ Len(body) > c.MaxLength)
    THEN FALSE
    ELSE IF c.RegexFilter # Nil /\ ~RegexMatch(c.RegexFilter, body)
    THEN FALSE
    ELSE TRUE

\* main.go:229 the Result of a job whose request failed
ErrorResult(job, err) ==
    [URL |-> job.URL, StatusCode |-> 0, Length |-> 0, Error |-> err]

\* main.go:248-252 the Result of an accepted job
SuccessResult(job, resp) ==
    [URL |-> job.URL, StatusCode |-> resp.StatusCode,
     Length |-> Len(resp.Body), Error |-> ""]

\* the bug of a missing `continue`: the failed job falls through to the
\* filters
AfterErrorResult_FallThrough(rec) == [rec EXCEPT !.pc = "filter"]

\* the bug of a `return` in place of the `continue`: the worker is gone
AfterErrorResult_Return(rec) == [WorkerInit EXCEPT !.pc = "done"]

\* the bug of going on to the success Result after the error Result
AfterErrorResult_SendBoth(rec) == [rec EXCEPT !.pc = "emit"]

\* main.go:230 `continue` after the error Result: the iteration is over
AfterErrorResult(rec) == WorkerInit

\* the bug of `job.Depth <= cfg.MaxDepth`
ShouldExpand_OffByOne(job, c) == c.Recursive /\ job.Depth <= c.MaxDepth

\* the bug of a recursion with no depth limit
ShouldExpand_NoDepth(job, c) == c.Recursive

\* main.go:255 `if cfg.Recursive && job.Depth < cfg.MaxDepth`
ShouldExpand(job, c) == c.Recursive /\ job.Depth < c.MaxDepth

\* main.go:257-261 the recursive job for one extension
ExtJob(c, job, ext) ==
    [URL |-> replacePlaceholder(c.URLTemplate, job.URL \o ext),
     PostData |-> replacePlaceholder(c.PostData, job.URL \o ext),
     Depth |-> job.Depth + 1]

\* the bug of recursing into the accepted target as a directory
PlainJob_Dir(c, job) ==
    [URL |-> job.URL \o <<"/">>,
     PostData |-> replacePlaceholder(c.PostData, job.URL),
     Depth |-> job.Depth + 1]

\* main.go:265-269 the plain recursive job
PlainJob(c, job) ==
    [URL |-> job.URL,
     PostData |-> replacePlaceholder(c.PostData, job.URL),
     Depth |-> job.Depth + 1]

\* main.go:195 `for job := range jobs`: the next job is received; the locals
\* of an iteration (job, resp, err, body) do not outlive it
WorkerRecv(w) ==
    /\ Running /\ wk[w].pc = "idle"
    /\ jobs # <<>>
    /\ jobs' = Tail(jobs)
    /\ jobKind' = Tail(jobKind)
    /\ wk' = [wk EXCEPT ![w] = [WorkerInit EXCEPT !.pc = "mark",
                                                 !.job = Head(jobs),
                                                 !.kind = Head(jobKind)]]
    /\ consumed' = consumed (+) SetToBag({Head(jobs)})
    /\ UNCHANGED <<cfg, wordlistFile, jobsClosed, results, resultsClosed,
                   visited, mainState, wgCount, printerPc, crashed,
                   seeded, dispatched, recEnq, emitted, sentFor, server>>

\* main.go:194-195 the range loop ends on a closed, drained channel and the
\* deferred wg.Done() runs
WorkerDone(w) ==
    /\ Running /\ wk[w].pc = "idle"
    /\ jobs = <<>> /\ jobsClosed
    /\ wk' = [wk EXCEPT ![w].pc = "done"]
    /\ wgCount' = wgCount - 1
    /\ UNCHANGED <<cfg, wordlistFile, jobs, jobKind,
                   jobsClosed, results, resultsClosed,
                   visited, mainState, printerPc, crashed, seeded,
                   dispatched, recEnq, emitted, consumed, sentFor, server>>

\* the bug of deduplicating in every mode
ConsultVisited_Always(c) == TRUE

\* main.go:197 `if cfg.Recursive {`: the visited map is used in recursive
\* mode only
ConsultVisited(c) == c.Recursive

\* main.go:197-201 the visited check, then on to the request loop
WorkerMark(w) ==
    /\ Running /\ wk[w].pc = "mark"
    /\ LET url == wk[w].job.URL
           loaded == ConsultVisited(cfg) /\ LoadOrStoreLoaded(visited, url)
       IN /\ visited' = IF ConsultVisited(cfg) THEN visited \cup {url}
                        ELSE visited
          /\ IF loaded
             THEN /\ wk' = [wk EXCEPT ![w] = WorkerInit]
                  /\ UNCHANGED dispatched
             ELSE /\ wk' = [wk EXCEPT ![w].pc = "request"]
                  /\ dispatched' = dispatched (+) SetToBag({url})
    /\ UNCHANGED <<cfg, wordlistFile, jobs, jobKind,
                   jobsClosed, results, resultsClosed,
                   mainState, wgCount, printerPc, crashed, seeded,
                   recEnq, emitted, consumed, sentFor, server>>

\* the bug of sending the header templates as they are
RequestHeaders_Raw(c, job) == c.Headers

\* main.go:217-219 the headers set on the request of one attempt
RequestHeaders(c, job) ==
    [k \in DOMAIN c.Headers |-> replacePlaceholder(c.Headers[k], job.URL)]

\* main.go:211-219 the request of one attempt: http.NewRequest, then the
\* headers
NewRequest(c, job) ==
    [Method |-> c.Method, URL |-> job.URL, Header |-> RequestHeaders(c, job)]

\* main.go:210-226 one iteration of the attempt loop, up to the loop
\* condition of the next one; main.go:233-235 the body is read on a response
WorkerAttempt(w) ==
    /\ Running /\ wk[w].pc = "request"
    /\ AttemptAllowed(Len(wk[w].outs), cfg)
    /\ \E reply \in server :
         LET made == ~NewRequestFails(cfg.Method, wk[w].job.URL)
             broke == made /\ BreakOnReply(reply)
             outs == Append(wk[w].outs,
                            IF ~made THEN "reqerr"
                            ELSE IF reply.ok THEN "resp" ELSE "err")
         IN wk' = [wk EXCEPT
                ![w].outs = outs,
                ![w].req = IF made THEN NewRequest(cfg, wk[w].job) ELSE NoReq,
                ![w].err = IF ~made THEN "net/http: invalid method"
                           ELSE IF reply.ok THEN "" ELSE TransportError,
                ![w].hasResp = made /\ reply.ok,
                ![w].resp = IF made /\ reply.ok
                            THEN [StatusCode |-> reply.StatusCode,
                                  Body |-> reply.Body]
                            ELSE NoResp,
                ![w].pc = IF broke THEN "filter"
                          ELSE IF AttemptAllowed(Len(outs), cfg) THEN "request"
                          ELSE "afterLoop"]
    /\ UNCHANGED <<cfg, wordlistFile, jobs, jobKind,
                   jobsClosed, results, resultsClosed,
                   visited, mainState, wgCount, printerPc, crashed,
                   seeded, dispatched, recEnq, emitted, consumed, sentFor,
                   server>>

\* main.go:210 the loop body never runs when cfg.Retries < 0
WorkerNoAttempt(w) ==
    /\ Running /\ wk[w].pc = "request"
    /\ ~AttemptAllowed(Len(wk[w].outs), cfg)
    /\ wk' = [wk EXCEPT ![w].pc = "afterLoop"]
    /\ UNCHANGED <<cfg, wordlistFile, jobs, jobKind,
                   jobsClosed, results, resultsClosed,
                   visited, mainState, wgCount, printerPc, crashed,
                   seeded, dispatched, recEnq, emitted, consumed, sentFor,
                   server>>

\* main.go:228-231 after the loop with err != nil: the error Result is sent
WorkerSendErr(w) ==
    /\ Running /\ wk[w].pc = "afterLoop"
    /\ wk[w].err # ""
    /\ IF resultsClosed
       THEN /\ crashed' = "send on closed channel: results"
            /\ UNCHANGED <<results, wk, emitted, sentFor>>
       ELSE /\ Len(results) < Cap
            /\ results' = Append(results, ErrorResult(wk[w].job, wk[w].err))
            /\ emitted' = emitted + 1
            /\ sentFor' = sentFor (+) SetToBag({wk[w].job.URL})
            /\ wk' = [wk EXCEPT ![w] = AfterErrorResult(wk[w])]
            /\ UNCHANGED crashed
    /\ UNCHANGED <<cfg, wordlistFile, jobs, jobKind,
                   jobsClosed, resultsClosed, visited,
                   mainState, wgCount, printerPc, seeded, dispatched,
                   recEnq, consumed, server>>

\* main.go:233 after the loop with err == nil and no attempt made: resp is
\* nil and resp.Body panics
WorkerNilResp(w) ==
    /\ Running /\ wk[w].pc = "afterLoop"
    /\ wk[w].err = "" /\ ~wk[w].hasResp
    /\ crashed' = "nil pointer dereference"
    /\ UNCHANGED <<cfg, wordlistFile, jobs, jobKind,
                   jobsClosed, results, resultsClosed,
                   visited, mainState, wk, wgCount, printerPc, seeded,
                   dispatched, recEnq, emitted, consumed, sentFor, server>>

\* main.go:237-246 the filters
WorkerFilter(w) ==
    /\ Running /\ wk[w].pc = "filter"
    /\ wk' = [wk EXCEPT ![w] =
                 IF Accept(wk[w].resp.StatusCode, wk[w].resp.Body, cfg)
                 THEN [@ EXCEPT !.pc = "emit"] ELSE WorkerInit]
    /\ UNCHANGED <<cfg, wordlistFile, jobs, jobKind,
                   jobsClosed, results, resultsClosed,
                   visited, mainState, wgCount, printerPc, crashed,
                   seeded, dispatched, recEnq, emitted, consumed, sentFor,
                   server>>

\* main.go:248-255 the Result of an accepted job is sent
WorkerEmit(w) ==
    /\ Running /\ wk[w].pc = "emit"
    /\ IF resultsClosed
       THEN /\ crashed' = "send on closed channel: results"
            /\ UNCHANGED <<results, wk, emitted, sentFor>>
       ELSE /\ Len(results) < Cap
            /\ results' = Append(results, SuccessResult(wk[w].job, wk[w].resp))
            /\ emitted' = emitted + 1
            /\ sentFor' = sentFor (+) SetToBag({wk[w].job.URL})
            /\ wk' = [wk EXCEPT ![w] =
                   IF ShouldExpand(wk[w].job, cfg)
                   THEN [@ EXCEPT !.pc = "expand", !.ext = 1]
                   ELSE WorkerInit]
            /\ UNCHANGED crashed
    /\ UNCHANGED <<cfg, wordlistFile, jobs, jobKind,
                   jobsClosed, resultsClosed, visited,
                   mainState, wgCount, printerPc, seeded, dispatched,
                   recEnq, consumed, server>>

\* main.go:256-263 `jobs <- newJob` for the next extension
WorkerExpandExt(w) ==
    /\ Running /\ wk[w].pc = "expand"
    /\ wk[w].ext <= Len(cfg.Extensions)
    /\ IF jobsClosed
       THEN /\ crashed' = "send on closed channel: jobs"
            /\ UNCHANGED <<jobs, jobKind, wk, recEnq>>
       ELSE /\ Len(jobs) < Cap
            /\ jobs' = Append(jobs,
                         ExtJob(cfg, wk[w].job, cfg.Extensions[wk[w].ext]))
            /\ jobKind' = Append(jobKind, "ext")
            /\ wk' = [wk EXCEPT ![w].ext = @ + 1]
            /\ recEnq' = recEnq + 1
            /\ UNCHANGED crashed
    /\ UNCHANGED <<cfg, wordlistFile, jobsClosed, results, resultsClosed,
                   visited, mainState, wgCount, printerPc, seeded,
                   dispatched, emitted, consumed, sentFor, server>>

\* main.go:264-270 `jobs <- newJob` for the plain recursive job
WorkerExpandPlain(w) ==
    /\ Running /\ wk[w].pc = "expand"
    /\ wk[w].ext > Len(cfg.Extensions)
    /\ IF jobsClosed
       THEN /\ crashed' = "send on closed channel: jobs"
            /\ UNCHANGED <<jobs, jobKind, wk, recEnq>>
       ELSE /\ Len(jobs) < Cap
            /\ jobs' = Append(jobs, PlainJob(cfg, wk[w].job))
            /\ jobKind' = Append(jobKind, "plain")
            /\ wk' = [wk EXCEPT ![w] = WorkerInit]
            /\ recEnq' = recEnq + 1
            /\ UNCHANGED crashed
    /\ UNCHANGED <<cfg, wordlistFile, jobsClosed, results, resultsClosed,
                   visited, mainState, wgCount, printerPc, seeded,
                   dispatched, emitted, consumed, sentFor, server>>

\* ---------------------------------------------------------------- printer
\* main.go:407-411 `for res := range results { printResult(...) }`
PrinterRecv ==
    /\ Running /\ printerPc = "range"
    /\ results # <<>>
    /\ results' = Tail(results)
    /\ UNCHANGED <<cfg, wordlistFile, jobs, jobKind,
                   jobsClosed, resultsClosed, visited,
                   mainState, wk, wgCount, printerPc, crashed, seeded,
                   dispatched, recEnq, emitted, consumed, sentFor, server>>

PrinterDone ==
    /\ Running /\ printerPc = "range"
    /\ results = <<>> /\ resultsClosed
    /\ printerPc' = "done"
    /\ UNCHANGED <<cfg, wordlistFile, jobs, jobKind,
                   jobsClosed, results, resultsClosed,
                   visited, mainState, wk, wgCount, crashed, seeded,
                   dispatched, recEnq, emitted, consumed, sentFor, server>>

\* ------------------------------------------------------------ specification
Next ==
    \/ MainSkipBlank
    \/ MainSendBase
    \/ MainSendExt
    \/ MainCloseJobs
    \/ MainWait
    \/ MainCloseResults
    \/ MainReturn
    \/ \E w \in Workers : WorkerRecv(w)
    \/ \E w \in Workers : WorkerDone(w)
    \/ \E w \in Workers : WorkerMark(w)
    \/ \E w \in Workers : WorkerAttempt(w)
    \/ \E w \in Workers : WorkerNoAttempt(w)
    \/ \E w \in Workers : WorkerSendErr(w)
    \/ \E w \in Workers : WorkerNilResp(w)
    \/ \E w \in Workers : WorkerFilter(w)
    \/ \E w \in Workers : WorkerEmit(w)
    \/ \E w \in Workers : WorkerExpandExt(w)
    \/ \E w \in Workers : WorkerExpandPlain(w)
    \/ PrinterRecv
    \/ PrinterDone

Spec == Init /\ [][Next]_vars

\* -------------------------------------------------------------- properties
Max(a, b) == IF a >= b THEN a ELSE b
Range(f) == {f[i] : i \in DOMAIN f}

\* main has returned: seeding finished, every worker exited, results closed
Terminated == mainState.pc = "exit"

\* main has a job in hand and blocks in `jobs <-` on the full queue
SeederBlocked ==
    /\ AtLine /\ (mainState.ext >= 1 \/ ~SkipLine(CurWord))
    /\ ~jobsClosed /\ Len(jobs) >= Cap

\* a worker blocks in `jobs <-` on the full queue
WorkerBlockedOnJobs(w) ==
    wk[w].pc = "expand" /\ ~jobsClosed /\ Len(jobs) >= Cap

\* the seeder and every worker are blocked sending to the full job queue, and
\* nobody is left to receive from it
JobQueueStall ==
    /\ crashed = "none"
    /\ SeederBlocked
    /\ \A w \in Workers : WorkerBlockedOnJobs(w)

\* C1: the run terminates with every generated job consumed; in particular no
\* state is reachable in which the seeder and all workers are blocked on the
\* job queue forever.  Stated as the safety part: the stall never happens.
C1_NoJobQueueStall == ~JobQueueStall

\* C2: no worker ever enqueues a recursive job onto a job queue that has
\* already been closed (the send would panic the process).
C2_NoSendOnClosedJobs == crashed # "send on closed channel: jobs"

\* the jobs workers are working on
HeldJobs ==
    {wk[w].job : w \in {v \in Workers : wk[v].pc \notin {"idle", "done"}}}
QueuedJobs == Range(jobs)
NonBlank == {i \in DOMAIN wordlistFile : wordlistFile[i] # <<>>}

\* C3: with recursion enabled every target is dispatched (enters the request
\* loop) at most once in the whole run, whatever jobs carry it.
C3_DispatchedAtMostOnce ==
    cfg.Recursive =>
        \A u \in BagToSet(dispatched) : CopiesIn(u, dispatched) <= 1

\* two seed jobs with the same target were both received and marked, and the
\* target was dispatched once
C3_Witness ==
    /\ cfg.Recursive /\ cfg.Workers >= 2
    /\ Len(seeded) = 2 /\ seeded[1].URL = seeded[2].URL
    /\ jobs = <<>> /\ recEnq = 0
    /\ \A w \in Workers : wk[w].pc # "mark"
    /\ CopiesIn(seeded[1].URL, dispatched) = 1

\* C4 as stated: with recursion enabled no queued, dispatched or reported
\* job has a depth above cfg.MaxDepth.
C4_DepthBound ==
    cfg.Recursive =>
        \A j \in QueuedJobs \cup HeldJobs : j.Depth <= cfg.MaxDepth

\* C4 as amended: with recursion enabled no queued, dispatched or reported
\* job has a depth above cfg.MaxDepth, or above 0 when cfg.MaxDepth is
\* negative (seed jobs have depth 0 whatever the max depth).
C4_DepthBoundAmended ==
    cfg.Recursive =>
        \A j \in QueuedJobs \cup HeldJobs : j.Depth <= Max(cfg.MaxDepth, 0)

\* a recursive job at the maximum depth is being dispatched
C4_Witness ==
    /\ cfg.Recursive /\ cfg.MaxDepth >= 1
    /\ \E w \in Workers : /\ wk[w].pc \in {"request", "filter", "emit"}
                          /\ wk[w].job.Depth = cfg.MaxDepth

RECURSIVE ExpectedSeeds(_)
\* the seed jobs the claim names, for the lines from number i on: for each
\* non-empty line the base substitution, then one per extension
ExpectedSeeds(i) ==
    IF i > Len(wordlistFile) THEN <<>>
    ELSE IF wordlistFile[i] = <<>> THEN ExpectedSeeds(i + 1)
    ELSE << [URL |-> ReplaceAll(cfg.URLTemplate, FUZZ, wordlistFile[i]),
             PostData |-> ReplaceAll(cfg.PostData, FUZZ, wordlistFile[i]),
             Depth |-> 0] >>
         \o [k \in 1..Len(cfg.Extensions) |->
               [URL |-> ReplaceAll(cfg.URLTemplate, FUZZ,
                                   wordlistFile[i] \o cfg.Extensions[k]),
                PostData |-> ReplaceAll(cfg.PostData, FUZZ,
                                        wordlistFile[i] \o cfg.Extensions[k]),
                Depth |-> 0]]
         \o ExpectedSeeds(i + 1)

\* C5: with recursion off, once seeding is over exactly N * (1 + E) jobs have
\* been enqueued, all of depth 0: per non-empty line the base job and then
\* one job per extension; no other job is ever enqueued.
C5_SeedJobs ==
    ~cfg.Recursive =>
        /\ recEnq = 0
        /\ Len(seeded) <= Cardinality(NonBlank) * (1 + Len(cfg.Extensions))
        /\ mainState.pc # "feed" =>
             /\ Len(seeded) = Cardinality(NonBlank) * (1 + Len(cfg.Extensions))
             /\ seeded = ExpectedSeeds(1)

\* seeding is over for a wordlist with a blank line, a word and an extension
C5_Witness ==
    /\ ~cfg.Recursive /\ mainState.pc # "feed"
    /\ Cardinality(NonBlank) >= 1 /\ Len(cfg.Extensions) >= 1
    /\ Cardinality(NonBlank) < Len(wordlistFile)
    /\ Len(seeded) = Cardinality(NonBlank) * (1 + Len(cfg.Extensions))

AllTransportErrors(outs) ==
    outs # <<>> /\ \A i \in 1..Len(outs) : outs[i] = "err"
Moved(w) == wk'[w] # wk[w]

\* C6, one step: a job whose every attempt fails with a transport error gets exactly
\* cfg.Retries + 1 attempts, and then exactly one error Result is sent for
\* it: its target, the error text, no status and no length.
C6_Step ==
    \A w \in Workers :
      AllTransportErrors(wk[w].outs) =>
        /\ wk[w].pc \in {"request", "afterLoop"}
        /\ wk[w].pc = "afterLoop" <=> Len(wk[w].outs) = cfg.Retries + 1
        /\ wk[w].pc = "request" => Len(wk[w].outs) < cfg.Retries + 1
        /\ (wk[w].pc = "request" /\ Moved(w)) =>
             /\ Len(wk'[w].outs) = Len(wk[w].outs) + 1
             /\ results' = results
        /\ (wk[w].pc = "afterLoop" /\ Moved(w)) =>
             /\ results' = Append(results,
                             [URL |-> wk[w].job.URL, StatusCode |-> 0,
                              Length |-> 0, Error |-> TransportError])
             /\ emitted' = emitted + 1
             /\ wk'[w].pc = "idle" /\ wk'[w].outs = <<>>
\* C6: every step of the run keeps the retry bound and the single error
\* Result of a job whose attempts all failed
C6_RetryBound == [][C6_Step]_vars

\* an error Result is in the stream of a run with retries configured
C6_Witness ==
    /\ cfg.Retries >= 1
    /\ \E i \in 1..Len(results) : results[i].Error = TransportError

\* C7: once an attempt gets a response, whatever its status, no further
\* attempt is made: the response is the last attempt, the worker has left the
\* loop, and no job has more than cfg.Retries + 1 attempts.
C7_NoRetryAfterResponse ==
    \A w \in Workers :
      /\ wk[w].outs # <<>> => Len(wk[w].outs) <= cfg.Retries + 1
      /\ wk[w].hasResp => wk[w].outs[Len(wk[w].outs)] = "resp"
      /\ \A i \in 1..Len(wk[w].outs) :
           wk[w].outs[i] = "resp" =>
             /\ i = Len(wk[w].outs)
             /\ wk[w].pc \notin {"request", "afterLoop"}
             /\ wk[w].hasResp

\* a 500 answer to the first attempt was taken as the result although a
\* retry was left
C7_Witness ==
    /\ cfg.Retries >= 1
    /\ \E w \in Workers : /\ wk[w].outs = <<"resp">>
                          /\ wk[w].resp.StatusCode = 500
                          /\ wk[w].pc = "emit"

\* the acceptance condition of the claim: every configured predicate holds
ClaimAccept(resp, c) ==
    /\ c.StatusFilter # <<>> => resp.StatusCode \in Range(c.StatusFilter)
    /\ c.MinLength > 0 => Len(resp.Body) >= c.MinLength
    /\ c.MaxLength > 0 => Len(resp.Body) <= c.MaxLength
    /\ c.RegexFilter # Nil => RegexMatch(c.RegexFilter, resp.Body)

\* C8, one step: for a job that got a response a non-error Result is emitted if and
\* only if all configured predicates hold together; an unconfigured
\* predicate never rejects.
C8_Step ==
    /\ \A w \in Workers :
         /\ (wk[w].pc = "filter" /\ Moved(w)) =>
              IF ClaimAccept(wk[w].resp, cfg)
              THEN /\ wk'[w].pc = "emit"
                   /\ wk'[w].job = wk[w].job /\ wk'[w].resp = wk[w].resp
              ELSE wk'[w].pc = "idle"
         /\ (wk[w].pc = "emit" /\ Moved(w)) =>
              results' = Append(results,
                           [URL |-> wk[w].job.URL,
                            StatusCode |-> wk[w].resp.StatusCode,
                            Length |-> Len(wk[w].resp.Body), Error |-> ""])
    /\ (Len(results') > Len(results) /\ results'[Len(results')].Error = "") =>
         \E w \in Workers : /\ wk[w].pc = "emit" /\ Moved(w)
                            /\ wk[w].hasResp
                            /\ ClaimAccept(wk[w].resp, cfg)
C9_Step ==
    \A w \in Workers :
      /\ wk[w].pc \in {"filter", "emit", "expand"} =>
           wk[w].hasResp /\ wk[w].err = ""
      /\ (wk[w].pc = "afterLoop" /\ wk[w].err # "" /\ Moved(w)) =>
           /\ results' = Append(results,
                           [URL |-> wk[w].job.URL, StatusCode |-> 0,
                            Length |-> 0, Error |-> wk[w].err])
           /\ wk'[w].pc = "idle"
           /\ jobs' = jobs /\ recEnq' = recEnq
\* C9: in every step of the run a failed job bypasses the filter and the
\* expansion and yields the error Result
C9_FailedJobSkipsFilter == [][C9_Step]_vars

\* an error Result was sent with recursion on, depth left and a status
\* filter set, and nothing was enqueued
C9_Witness ==
    /\ cfg.Recursive /\ cfg.MaxDepth >= 1 /\ cfg.StatusFilter # <<>>
    /\ recEnq = 0
    /\ \E i \in 1..Len(results) : results[i].Error # ""

\* C10, one step: a job the filter rejects and a job dropped because its target is in
\* the visited set each produce no Result and no recursive job.
C10_Step ==
    \A w \in Workers :
      /\ (wk[w].pc = "filter" /\ ~ClaimAccept(wk[w].resp, cfg) /\ Moved(w)) =>
           /\ wk'[w] = WorkerInit
           /\ results' = results /\ emitted' = emitted
           /\ jobs' = jobs /\ recEnq' = recEnq
      /\ (wk[w].pc = "mark" /\ cfg.Recursive /\ wk[w].job.URL \in visited
          /\ Moved(w)) =>
           /\ wk'[w] = WorkerInit
           /\ results' = results /\ emitted' = emitted
           /\ jobs' = jobs /\ recEnq' = recEnq
           /\ dispatched' = dispatched
\* C10: in every step of the run a rejected or already visited job is
\* dropped without a Result and without recursive jobs
C10_SilentDrop == [][C10_Step]_vars

\* two seed jobs with one target are done: one was dispatched and rejected,
\* the other dropped as visited, and no Result and no job came of them
C10_Witness ==
    /\ cfg.Recursive /\ crashed = "none"
    /\ Len(seeded) = 2 /\ seeded[1].URL = seeded[2].URL
    /\ jobs = <<>> /\ \A w \in Workers : wk[w].pc \in {"idle", "done"}
    /\ CopiesIn(seeded[1].URL, dispatched) = 1
    /\ emitted = 0 /\ recEnq = 0

\* the bag of the elements of a sequence
RECURSIVE SeqToBag(_)
SeqToBag(s) == IF s = <<>> THEN EmptyBag
               ELSE SetToBag({Head(s)}) (+) SeqToBag(Tail(s))
AllWorkersExited == \A w \in Workers : wk[w].pc = "done"

\* C11, one step: the step that sends an error Result leaves the process
\* running, puts the sending worker back at the receive on the job queue,
\* stops no other worker and takes nothing off the job queue; and, with
\* recursion off, once the workers have exited the jobs they consumed are
\* the seed jobs of the wordlist, whatever the host replied.
C11_Step ==
    /\ \A w \in Workers :
         (wk[w].pc = "afterLoop" /\ wk[w].err # "" /\ Moved(w)) =>
           /\ crashed' = "none"
           /\ wk'[w].pc = "idle"
           /\ \A v \in Workers \ {w} : wk'[v] = wk[v]
           /\ wgCount' = wgCount
           /\ jobs' = jobs /\ jobsClosed' = jobsClosed
    /\ (~cfg.Recursive /\ AllWorkersExited') =>
           /\ jobs' = <<>>
           /\ consumed' = SeqToBag(ExpectedSeeds(1))
C12_NoResultLeftAtExit == Terminated => results = <<>>

\* the run is over: main has returned or a goroutine has panicked
RunEnded == Terminated \/ crashed # "none"
Enqueued == Len(seeded) + recEnq

\* C13: every job put on the job queue is received by exactly one worker:
\* the jobs received and the jobs still queued together are the jobs
\* enqueued, each seed job received is received as often as it was seeded at
\* most, and when the run is over none is left in the queue.
C13_EveryJobConsumedOnce ==
    /\ BagCardinality(consumed) + Len(jobs) = Enqueued
    /\ recEnq = 0 => (consumed (+) SeqToBag(jobs)) = SeqToBag(seeded)
    /\ RunEnded => jobs = <<>>

AtMark == {w \in Workers : wk[w].pc = "mark"}

\* C14: with recursion off the visited map stays empty, no recursive job is
\* enqueued, every job a worker received enters the request loop (all of
\* them but those just received), and once the workers have exited the
\* targets dispatched are the targets of the seed jobs, one dispatch per
\* seed job, duplicates included.
C14_NoRecursionNoVisited ==
    ~cfg.Recursive =>
        /\ visited = {}
        /\ recEnq = 0
        /\ \A j \in QueuedJobs \cup HeldJobs : j.Depth = 0
        /\ BagCardinality(dispatched)
             = BagCardinality(consumed) - Cardinality(AtMark)
        /\ AllWorkersExited =>
             /\ BagCardinality(dispatched)
                  = Cardinality(NonBlank) * (1 + Len(cfg.Extensions))
             /\ dispatched
                  = SeqToBag([i \in DOMAIN seeded |-> seeded[i].URL])

\* recursion is off, the workers have exited and the two seed jobs, which
\* had the same target, were both dispatched
C14_Witness ==
    /\ ~cfg.Recursive /\ AllWorkersExited
    /\ Len(seeded) = 2 /\ seeded[1].URL = seeded[2].URL
    /\ CopiesIn(seeded[1].URL, dispatched) = 2

\* C15, one step: a worker expanding an accepted job enqueues, for the
\* extension it is at, a job whose target is the accepted target followed by
\* that extension, and after the extensions one job with the parent's
\* target; each has the parent's depth plus one.
C15_Step ==
    \A w \in Workers :
      (wk[w].pc = "expand" /\ recEnq' = recEnq + 1 /\ Moved(w)) =>
        LET new == jobs'[Len(jobs')]
            k == wk[w].ext
        IN /\ jobs' = Append(jobs, new)
           /\ new.Depth = wk[w].job.Depth + 1
           /\ new.URL = IF k <= Len(cfg.Extensions)
                        THEN wk[w].job.URL \o cfg.Extensions[k]
                        ELSE wk[w].job.URL
\* C15: every recursive job enqueued has the target the claim gives it (the
\* accepted URL followed by the extension, or the accepted URL) and depth + 1
C15_RecursiveBatchTargets == [][C15_Step]_vars

SeedTargets == {seeded[i].URL : i \in DOMAIN seeded}

\* C16, one step: a worker enters the expansion only by the step that sends
\* the success Result of its job; a recursive job is enqueued only by a
\* worker in the expansion of an accepted job with depth < cfg.MaxDepth and
\* has that depth plus one; and with cfg.MaxDepth = 1 nothing deeper than 1
\* exists and there is at most one batch (one job per extension and the
\* plain one) per seed target.
C16_Step ==
    /\ \A w \in Workers :
         (wk'[w].pc = "expand" /\ wk[w].pc # "expand") =>
           /\ wk[w].pc = "emit"
           /\ emitted' = emitted + 1
           /\ results' = Append(results,
                           [URL |-> wk[w].job.URL,
                            StatusCode |-> wk[w].resp.StatusCode,
                            Length |-> Len(wk[w].resp.Body), Error |-> ""])
           /\ jobs' = jobs /\ recEnq' = recEnq
    /\ recEnq' # recEnq =>
         \E w \in Workers :
           /\ wk[w].pc = "expand" /\ Moved(w)
           /\ cfg.Recursive /\ wk[w].job.Depth < cfg.MaxDepth
           /\ wk[w].hasResp /\ ClaimAccept(wk[w].resp, cfg)
           /\ recEnq' = recEnq + 1
           /\ Len(jobs') = Len(jobs) + 1
           /\ jobs'[Len(jobs')].Depth = wk[w].job.Depth + 1
    /\ \A w \in Workers :
         wk'[w].pc = "expand" => wk'[w].job.Depth < cfg.MaxDepth
    /\ cfg.MaxDepth = 1 =>
         /\ \A i \in DOMAIN jobs' : jobs'[i].Depth <= 1
         /\ recEnq' <= Cardinality(SeedTargets') * (Len(cfg.Extensions) + 1)
C17_Step ==
    /\ cfg' = cfg
    /\ \A w \in Workers :
         (wk[w].pc = "request" /\ Len(wk'[w].outs) = Len(wk[w].outs) + 1
          /\ wk'[w].outs[Len(wk'[w].outs)] # "reqerr") =>
           LET sent == wk'[w].req.Header
               url == wk[w].job.URL
           IN /\ DOMAIN sent = DOMAIN cfg.Headers
              /\ \A k \in DOMAIN cfg.Headers :
                   sent[k] = ReplaceAll(cfg.Headers[k], FUZZ, url)
              /\ wk'[w].req.URL = url
\* C17: in every step of the run the request of an attempt carries the
\* configured headers with the target substituted, and the templates are
\* left unchanged
C17_HeadersSubstituted == [][C17_Step]_vars

\* the second attempt for the target /a carried the Referer header /a?/a,
\* made from the template FUZZ?FUZZ, and the template is still there
C17_Witness ==
    \E w \in Workers :
      /\ Len(wk[w].outs) = 2 /\ wk[w].outs[2] # "reqerr"
      /\ wk[w].job.URL = <<"/", "a">>
      /\ "Referer" \in DOMAIN wk[w].req.Header
      /\ wk[w].req.Header["Referer"] = <<"/", "a", "?", "/", "a">>
      /\ wk[w].req.Header["Accept"] = <<"*">>
      /\ cfg.Headers["Referer"] = FUZZ \o <<"?">> \o FUZZ

\* C18: the results channel is closed only when every worker has left its
\* loop and run wg.Done(), and no worker ever panics sending a Result on the
\* closed results channel.
C18_ResultsClosedAfterWorkers ==
    /\ resultsClosed => (AllWorkersExited /\ wgCount = 0)
    /\ crashed # "send on closed channel: results"

\* the results channel is closed after both workers of the pool sent a
\* Result and exited
C18_Witness ==
    /\ resultsClosed /\ cfg.Workers = 2 /\ AllWorkersExited
    /\ emitted >= 2 /\ BagCardinality(dispatched) = 2

\* C19, one state: with recursion on, a plain recursive job has the target
\* and one more than the depth of a job already dispatched, its target is in
\* the visited map from the moment it is enqueued, and a worker that received
\* it never gets past the visited check with it.
C19_PlainJobInVisited ==
    cfg.Recursive =>
        /\ \A i \in DOMAIN jobs :
             jobKind[i] = "plain" =>
               /\ jobs[i].URL \in visited
               /\ jobs[i].Depth >= 1
               /\ CopiesIn(jobs[i].URL, dispatched) = 1
        /\ \A w \in Workers :
             wk[w].kind = "plain" =>
               /\ wk[w].pc = "mark"
               /\ wk[w].job.URL \in visited

\* C19, one step: the worker that holds a plain recursive job drops it at
\* the visited check: no dispatch, no Result, no job.
C19_Step ==
    \A w \in Workers :
      (wk[w].kind = "plain" /\ Moved(w)) =>
        /\ wk'[w] = WorkerInit
        /\ dispatched' = dispatched /\ emitted' = emitted
        /\ results' = results /\ jobs' = jobs /\ recEnq' = recEnq
\* C19: in every step of the run each plain recursive job, queued or just
\* received, has its target in the visited map, and the one step a worker
\* takes with it is to discard it
C19_PlainJobNeverDispatched ==
    [][C19_Step /\ C19_PlainJobInVisited']_vars

\* the plain recursive job of the one accepted seed job was received and
\* dropped: one dispatch, one Result, one recursive job, nothing left
C19_Witness ==
    /\ cfg.Recursive /\ crashed = "none" /\ cfg.Extensions = <<>>
    /\ Len(seeded) = 1 /\ recEnq = 1
    /\ BagCardinality(consumed) = 2
    /\ jobs = <<>> /\ \A w \in Workers : wk[w].pc \in {"idle", "done"}
    /\ BagCardinality(dispatched) = 1 /\ emitted = 1

\* the workers that hold a job for which no Result can have been sent yet
BeforeResult ==
    {w \in Workers :
       wk[w].pc \in {"mark", "request", "afterLoop", "filter", "emit"}}
IsErrorResult(r) == r.Error # "" /\ r.StatusCode = 0 /\ r.Length = 0
IsSuccessResult(r) == r.Error = ""

\* C20: the Results sent are at most the jobs received, not counting the
\* jobs still on their way to a Result; no target has more Results than
\* dispatches; every Result is an error Result or a success Result; and
\* with recursion on no two Results have the same target.
C20_AtMostOneResultPerJob ==
    /\ emitted = BagCardinality(sentFor)
    /\ emitted <= BagCardinality(consumed) - Cardinality(BeforeResult)
    /\ \A u \in BagToSet(sentFor) :
         CopiesIn(u, sentFor) <= CopiesIn(u, dispatched)
    /\ \A i \in DOMAIN results :
         IsErrorResult(results[i]) # IsSuccessResult(results[i])
    /\ cfg.Recursive =>
         \A u \in BagToSet(sentFor) : CopiesIn(u, sentFor) = 1

\* with recursion on three jobs or more were received and two Results were
\* sent, an error Result and a success Result, for two targets
C20_Witness ==
    /\ cfg.Recursive /\ crashed = "none"
    /\ BagCardinality(consumed) >= 3 /\ emitted = 2
    /\ Len(results) = 2
    /\ IsErrorResult(results[1]) /\ IsSuccessResult(results[2])
    /\ results[1].URL # results[2].URL

====
